---- MODULE Spec2Model ----
(***************************************************************************)
(* Remittance saga of remit-python: the Transactions and TransactionEvents *)
(* tables, the provider gateways (UPI collector, AD Bank converter, Wise   *)
(* transmitter) and the operations of RemittanceService that drive one     *)
(* transaction from creation to COMPLETED or FAILED.                       *)
(*                                                                         *)
(* Decimal values are fixed-point integers in units of 10^-4 (Units), so   *)
(* the rate 0.017 is 170 and 170 CAD is 1700000.  Python's None is the     *)
(* string None for text fields.  Spec and SpecConc follow one transaction, *)
(* CreatedId, the id create_remittance assigns; before that call the id is *)
(* unknown to the tables.  SpecMulti follows two transactions.  The writes *)
(* to the tables succeed in Spec, SpecConc and SpecMulti; in SpecFaulty a  *)
(* write may raise ClientError.                                            *)
(***************************************************************************)
EXTENDS Integers, Sequences, FiniteSets, TLC

VARIABLES
    transactions,   \* Transactions table: transaction_id -> item
    events,         \* TransactionEvents table, in append order
    rates,          \* ExchangeRates table, in append order
    calls,          \* number of calls made to each provider gateway operation
    delivered,      \* callbacks handled for an existing transaction (bounded)
    last,           \* the operation that produced this state, with its effects
    scenario,       \* progress along the happy-path scenario, "off" when left
    handlers        \* handlers in flight (SpecConc): their position and locals

vars == <<transactions, events, rates, calls, delivered, last, scenario, handlers>>

-----------------------------------------------------------------------------
(* Bounds of the model *)

MaxDeliveries == 3
MaxLinkCalls == 2
MaxConcDeliveries == 2
MaxMultiDeliveries == 1
MaxMultiLinkCalls == 1
MaxFaultyDeliveries == 1
MaxFault == 4
MaxCreates == 2

(* Program constants *)

\* config/settings.py: 0.5 (percent), in units of 10^-4
DEFAULT_SERVICE_FEE_PERCENT == 5000

\* RemittanceRequest.validate_amount: Decimal('1000') and Decimal('100000'),
\* the values of MIN_/MAX_TRANSACTION_AMOUNT_INR of config/settings.py.
MIN_TRANSACTION_AMOUNT_INR == 1000
MAX_TRANSACTION_AMOUNT_INR == 100000

None == "None"
CreatedId == "t1"
IdSet == {CreatedId}
Amounts == {1000, 10000}
Rates == {170}
Senders == {"user123"}
UpiIds == {"user@upi"}
CallbackStatuses == {"SUCCESS", "FAILURE"}
ProviderOutcomes == {"ok", "fail", "timeout"}
\* SpecMulti: two transaction ids, amounts up to the configured maximum, rates
\* from the lower end to the middle of the range get_exchange_rate returns.
MultiIds == {"t1", "t2"}
MultiAmounts == {10000, 100000}
MultiRates == {165, 170}

\* SpecHttp: the rate queries of one run, the amounts asked of POST /remittances
\* and of POST /remittances/calculate (whole INR), and an id no transaction has.
MaxRateQueries == 3
RequestAmounts == {0, 999, 1000, 100000, 100001}
CalculateAmounts == {500, 100000}
UnknownId == "t404"
HttpIds == {CreatedId, UnknownId}

-----------------------------------------------------------------------------
(* app/db/models.py *)

TransactionStatus ==
    {"INITIATED", "PAYMENT_PENDING", "PAYMENT_RECEIVED", "CONVERSION_IN_PROGRESS",
     "CONVERSION_COMPLETE", "FUNDS_SENT", "COMPLETED", "FAILED", "REFUNDED"}

EventType ==
    {"TRANSACTION_CREATED", "PAYMENT_INITIATED", "PAYMENT_RECEIVED",
     "CONVERSION_INITIATED", "CONVERSION_COMPLETED", "TRANSFER_INITIATED",
     "TRANSFER_COMPLETED", "TRANSACTION_COMPLETED", "TRANSACTION_FAILED",
     "REFUND_INITIATED", "REFUND_COMPLETED"}

\* Transaction.__init__: status defaults to INITIATED, payment_details to {},
\* the references and failure_reason to None, created_at to the time of the call.
Transaction(transaction_id, user_id, amount_inr, amount_cad, exchange_rate, fees) ==
    [transaction_id    |-> transaction_id,
     user_id           |-> user_id,
     status            |-> "INITIATED",
     amount_inr        |-> amount_inr,
     amount_cad        |-> amount_cad,
     exchange_rate     |-> exchange_rate,
     fees              |-> fees,
     recipient_details |-> "recipient",
     payment_details   |-> <<>>,
     wise_transfer_id  |-> None,
     ad_bank_reference |-> None,
     failure_reason    |-> None,
     created_at        |-> "utcnow"]

\* TransactionEvent.__init__: event_id is a fresh uuid4, event_timestamp the
\* time of the call.
TransactionEvent(transaction_id, event_id, event_type, actor, event_timestamp) ==
    [transaction_id |-> transaction_id, event_id |-> event_id,
     event_type |-> event_type, actor |-> actor, event_timestamp |-> event_timestamp]

ExchangeRate(currency_pair, rate, source) ==
    [currency_pair |-> currency_pair, rate |-> rate, source |-> source]

-----------------------------------------------------------------------------
(* The store a handler works on, threaded through its calls: the tables,   *)
(* the gateway call counters and the trace of effects of the operation.    *)
(* fault is the number of the write of this run that raises ClientError (0 *)
(* for none), sticky tells whether the writes after it raise too, raised   *)
(* whether an exception is propagating.                                    *)

Store ==
    [transactions |-> transactions, events |-> events, rates |-> rates,
     calls |-> calls, trace |-> <<>>, fault |-> 0, sticky |-> FALSE, raised |-> FALSE]

StoreWithFault(fault, sticky) == [Store EXCEPT !.fault = fault, !.sticky = sticky]

\* One write through DynamoDBRepository: done is the store after the write;
\* a ClientError is logged and raised again, with nothing written.
Write(st, done) ==
    IF st.raised THEN st
    ELSE IF st.fault = 1
         THEN [st EXCEPT !.raised = TRUE, !.fault = IF st.sticky THEN 1 ELSE 0,
                         !.trace = Append(@, <<"raise", "ClientError", "-">>)]
         ELSE [done EXCEPT !.fault = IF st.fault = 0 THEN 0 ELSE st.fault - 1]

\* except Exception: the exception is caught.
Caught(st) == [st EXCEPT !.raised = FALSE]

\* Table.put_item: the item replaces the stored item with the same key, if
\* there is one, and is added otherwise.
put_item(items, item, schema) ==
    LET Key(it) == [k \in schema |-> it[k]] IN
    IF \E i \in DOMAIN items : Key(items[i]) = Key(item)
    THEN [i \in DOMAIN items |-> IF Key(items[i]) = Key(item) THEN item ELSE items[i]]
    ELSE Append(items, item)

\* Key schema of the TransactionEvents table: transaction_id HASH, event_id RANGE.
EventKey == {"transaction_id", "event_id"}

\* uuid4: an id no stored event has.
FreshEventId(items) == Len(items) + 1

\* datetime.utcnow() when an event is built: every event is built after the
\* write of the event before it has returned.
utcnow(items) == Len(items) + 1

\* TransactionRepository.get_by_id / DynamoDBRepository.get
Found(st, transaction_id) == transaction_id \in DOMAIN st.transactions

get_by_id(st, transaction_id) == st.transactions[transaction_id]

\* update_status that puts a new item holding the key, the status and the
\* additional updates in place of the stored one.
update_status_puts_item(st, transaction_id, status, additional_updates) ==
    LET old == st.transactions[transaction_id]
        blank == Transaction(transaction_id, None, 0, 0, 0, 0)
        new == [k \in DOMAIN old |->
                   IF k = "status" THEN status
                   ELSE IF k \in DOMAIN additional_updates THEN additional_updates[k]
                   ELSE IF k \in {"payment_details", "failure_reason", "ad_bank_reference",
                                  "wise_transfer_id"} THEN old[k]
                   ELSE blank[k]]
    IN Write(st, [st EXCEPT !.transactions[transaction_id] = new,
                            !.trace = Append(@, <<"update_status", status, old.status>>)])

\* TransactionRepository.update_status: SET #status = :status plus every key of
\* additional_updates, with no condition on the stored status.
update_status(st, transaction_id, status, additional_updates) ==
    LET old == st.transactions[transaction_id]
        new == [k \in DOMAIN old |->
                   IF k = "status" THEN status
                   ELSE IF k \in DOMAIN additional_updates THEN additional_updates[k]
                   ELSE old[k]]
    IN Write(st, [st EXCEPT !.transactions[transaction_id] = new,
                            !.trace = Append(@, <<"update_status", status, old.status>>)])

\* add_event with the event stored under its type instead of its event_id.
add_event_keyed_by_type(st, transaction_id, event_type, actor) ==
    LET event == TransactionEvent(transaction_id, FreshEventId(st.events), event_type,
                                  actor, utcnow(st.events))
        TypeKey == {"transaction_id", "event_type"}
    IN Write(st, [st EXCEPT !.events = put_item(@, event, TypeKey),
                            !.trace = Append(@, <<"add_event", event_type, actor>>)])

\* TransactionEventRepository.add_event / DynamoDBRepository.create
add_event(st, transaction_id, event_type, actor) ==
    LET event == TransactionEvent(transaction_id, FreshEventId(st.events), event_type,
                                  actor, utcnow(st.events))
    IN Write(st, [st EXCEPT !.events = put_item(@, event, EventKey),
                            !.trace = Append(@, <<"add_event", event_type, actor>>)])

\* ExchangeRateRepository.add_rate
add_rate(st, currency_pair, rate, source) ==
    Write(st, [st EXCEPT !.rates = Append(@, ExchangeRate(currency_pair, rate, source)),
                         !.trace = Append(@, <<"add_rate", currency_pair, rate>>)])

\* create that stores the item as the whole table.
create_replaces_table(st, transaction) ==
    Write(st, [st EXCEPT !.transactions = (transaction.transaction_id :> transaction),
                         !.trace = Append(@, <<"create", transaction.transaction_id,
                                                "INITIATED">>)])

\* TransactionRepository.create (put_item)
create(st, transaction) ==
    Write(st, [st EXCEPT !.transactions = (transaction.transaction_id :> transaction) @@ @,
                         !.trace = Append(@, <<"create", transaction.transaction_id,
                                                "INITIATED">>)])

\* A call to a provider gateway operation, with its arguments.
ProviderCall(st, name, args) ==
    IF st.raised THEN st
    ELSE [st EXCEPT !.calls[name] = @ + 1,
                    !.trace = Append(@, <<"call", name, args>>)]

\* str(e) of the exception a provider call raises.
ErrorMessage(outcome) == IF outcome = "timeout" THEN "timed out" ELSE "error"

\* ADBankService.convert_currency returns "ADBANK-<uuid4>", WiseService.create_transfer
\* "WISE-<uuid4>": a fresh reference per call.
\* a fresh reference per call: the n-th call returns the n-th reference.
ConversionReference(n) == "ADBANK-" \o ToString(n)
TransferId(n) == "WISE-" \o ToString(n)
\* UPIService.generate_payment_link returns the link built for the transaction.
UpiLink(transaction_id) == "upi://pay?tr=" \o transaction_id

\* A whole amount as a Decimal of the model.
Units(whole) == whole * 10000

\* What a run hands to its caller: its return value, or the exception raised.
Result(st, ret) ==
    [st |-> st, ret |-> IF st.raised THEN "Exception: ClientError" ELSE ret]

-----------------------------------------------------------------------------
(* app/services/remittance_service.py.  A handler runs without interruption *)
(* up to its awaited provider call (its *_begin part, which issues the     *)
(* call) and again from the provider's answer to its return (its *_resume  *)
(* part, given the answer and the number n of the call it answers); the    *)
(* operator named like the method is the whole call.                       *)

Pending(st) == Result(st, "awaiting")

\* create_remittance with the configured percent used as the fee fraction.
create_remittance_fee_100x(st, transaction_id, sender_id, amount_inr, exchange_rate) ==
    LET s1 == ProviderCall(st, "get_exchange_rate", <<"INR_CAD">>)
        s2 == add_rate(s1, "INR_CAD", exchange_rate, "AD_BANK")
        amount_cad == amount_inr * exchange_rate
        fees == amount_inr * DEFAULT_SERVICE_FEE_PERCENT
        transaction == Transaction(transaction_id, sender_id, Units(amount_inr),
                                   amount_cad, exchange_rate, fees)
        s3 == create(s2, transaction)
        s4 == add_event(s3, transaction_id, "TRANSACTION_CREATED", sender_id)
    IN Result(s4, get_by_id(s3, transaction_id).status)

\* create_remittance: rate query, rate quote, amounts, transaction, event.
create_remittance(st, transaction_id, sender_id, amount_inr, exchange_rate) ==
    LET s1 == ProviderCall(st, "get_exchange_rate", <<"INR_CAD">>)
        s2 == add_rate(s1, "INR_CAD", exchange_rate, "AD_BANK")
        amount_cad == amount_inr * exchange_rate
        fee_percent == DEFAULT_SERVICE_FEE_PERCENT \div 100
        fees == amount_inr * fee_percent
        transaction == Transaction(transaction_id, sender_id, Units(amount_inr),
                                   amount_cad, exchange_rate, fees)
        s3 == create(s2, transaction)
        s4 == add_event(s3, transaction_id, "TRANSACTION_CREATED", sender_id)
    IN Result(s4, get_by_id(s3, transaction_id).status)

\* confirm_begin that answers an unknown id without an error.
confirm_begin_unknown_accepted(st, transaction_id, upi_id) ==
    IF ~Found(st, transaction_id) THEN Result(st, "None")
    ELSE LET transaction == get_by_id(st, transaction_id) IN
         IF transaction.status # "INITIATED"
         THEN Result(st, "ValueError: not in INITIATED state")
         ELSE Pending(ProviderCall(st, "generate_payment_link",
                                   <<transaction.amount_inr + transaction.fees, upi_id>>))

\* confirm_begin without the check of the stored status.
confirm_begin_any_state(st, transaction_id, upi_id) ==
    IF ~Found(st, transaction_id) THEN Result(st, "ValueError: not found")
    ELSE LET transaction == get_by_id(st, transaction_id) IN
         Pending(ProviderCall(st, "generate_payment_link",
                              <<transaction.amount_inr + transaction.fees, upi_id>>))

\* confirm_remittance up to the awaited generate_payment_link.
confirm_begin(st, transaction_id, upi_id) ==
    IF ~Found(st, transaction_id) THEN Result(st, "ValueError: not found")
    ELSE LET transaction == get_by_id(st, transaction_id) IN
         IF transaction.status # "INITIATED"
         THEN Result(st, "ValueError: not in INITIATED state")
         ELSE Pending(ProviderCall(st, "generate_payment_link",
                                   <<transaction.amount_inr + transaction.fees, upi_id>>))

\* confirm_resume that treats a failed generate_payment_link as the callback
\* handlers treat their provider failures: FAILED, one event, nothing raised.
confirm_resume_marks_failed(st, transaction_id, upi_id, outcome) ==
    IF outcome # "ok"
    THEN LET f1 == update_status(st, transaction_id, "FAILED",
                      [failure_reason |-> "Payment link failed: " \o ErrorMessage(outcome)])
             f2 == add_event(f1, transaction_id, "TRANSACTION_FAILED", "system")
         IN Result(f2, "False")
    ELSE LET s1 == update_status(st, transaction_id, "PAYMENT_PENDING",
                      [payment_details |->
                          [upi_id |-> upi_id, upi_link |-> UpiLink(transaction_id)]])
             s2 == add_event(s1, transaction_id, "PAYMENT_INITIATED", "system")
         IN Result(s2, get_by_id(s1, transaction_id).status)

\* confirm_remittance from the answer of generate_payment_link: an exception
\* propagates to the caller, a link is stored with status PAYMENT_PENDING.
confirm_resume(st, transaction_id, upi_id, outcome) ==
    IF outcome # "ok"
    THEN Result(st, IF outcome = "timeout" THEN "Exception: timeout"
                    ELSE "Exception: provider")
    ELSE LET s1 == update_status(st, transaction_id, "PAYMENT_PENDING",
                      [payment_details |->
                          [upi_id |-> upi_id, upi_link |-> UpiLink(transaction_id)]])
             s2 == add_event(s1, transaction_id, "PAYMENT_INITIATED", "system")
         IN Result(s2, get_by_id(s1, transaction_id).status)

confirm_remittance(st, transaction_id, upi_id, outcome) ==
    LET b == confirm_begin(st, transaction_id, upi_id) IN
    IF b.ret = "awaiting" THEN confirm_resume(b.st, transaction_id, upi_id, outcome)
    ELSE b

\* Fail that marks the transaction REFUNDED and records the refund.
Fail_with_refund(st, transaction_id, failure_reason) ==
    LET s1 == update_status(st, transaction_id, "REFUNDED",
                            [failure_reason |-> failure_reason])
        s2 == add_event(s1, transaction_id, "REFUND_INITIATED", "system")
    IN Result(s2, "False")

\* The failure branch shared in shape by the three callback handlers:
\* update_status(FAILED, failure_reason), add_event(TRANSACTION_FAILED), False.
Fail(st, transaction_id, failure_reason) ==
    LET s1 == update_status(st, transaction_id, "FAILED",
                            [failure_reason |-> failure_reason])
        s2 == add_event(s1, transaction_id, "TRANSACTION_FAILED", "system")
    IN Result(s2, "False")

\* upi_begin that converts at the rate quoted last instead of the stored one.
upi_begin_latest_rate(st, event_data) ==
    LET transaction_id == event_data.transaction_id IN
    IF ~Found(st, transaction_id) THEN Result(st, "False")
    ELSE LET transaction == get_by_id(st, transaction_id) IN
         IF event_data.status # "SUCCESS"
         THEN Fail(st, transaction_id, "UPI payment failed: Unknown error")
         ELSE LET s1 == update_status(st, transaction_id, "PAYMENT_RECEIVED",
                           [payment_details |->
                               ("upi_reference" :> event_data.upi_reference)
                                   @@ transaction.payment_details])
                  s2 == add_event(s1, transaction_id, "PAYMENT_RECEIVED", "system")
              IN Pending(ProviderCall(s2, "convert_currency",
                             <<transaction.amount_inr, st.rates[Len(st.rates)].rate>>))

\* upi_begin without the check of the reported status.
upi_begin_any_status(st, event_data) ==
    LET transaction_id == event_data.transaction_id IN
    IF ~Found(st, transaction_id) THEN Result(st, "False")
    ELSE LET transaction == get_by_id(st, transaction_id)
             s1 == update_status(st, transaction_id, "PAYMENT_RECEIVED",
                      [payment_details |->
                          ("upi_reference" :> event_data.upi_reference)
                              @@ transaction.payment_details])
             s2 == add_event(s1, transaction_id, "PAYMENT_RECEIVED", "system")
         IN Pending(ProviderCall(s2, "convert_currency",
                        <<transaction.amount_inr, transaction.exchange_rate>>))

\* process_upi_payment_confirmation up to the awaited convert_currency.
upi_begin(st, event_data) ==
    LET transaction_id == event_data.transaction_id IN
    IF ~Found(st, transaction_id) THEN Result(st, "False")
    ELSE LET transaction == get_by_id(st, transaction_id) IN
         IF event_data.status # "SUCCESS"
         THEN Fail(st, transaction_id, "UPI payment failed: Unknown error")
         ELSE LET s1 == update_status(st, transaction_id, "PAYMENT_RECEIVED",
                           [payment_details |->
                               ("upi_reference" :> event_data.upi_reference)
                                   @@ transaction.payment_details])
                  s2 == add_event(s1, transaction_id, "PAYMENT_RECEIVED", "system")
              IN Pending(ProviderCall(s2, "convert_currency",
                             <<transaction.amount_inr, transaction.exchange_rate>>))

\* upi_resume with an except branch that only logs and returns False.
upi_resume_swallows(st, transaction_id, outcome, n) ==
    IF outcome # "ok"
    THEN Result(st, "False")
    ELSE LET s1 == update_status(st, transaction_id, "CONVERSION_IN_PROGRESS",
                      [ad_bank_reference |-> ConversionReference(n)])
             s2 == add_event(s1, transaction_id, "CONVERSION_INITIATED", "system")
         IN Result(s2, "True")

\* process_upi_payment_confirmation from the answer of convert_currency: the
\* try block and its except branch, which also catches what the writes raise.
upi_resume(st, transaction_id, outcome, n) ==
    IF outcome # "ok"
    THEN Fail(st, transaction_id, "Currency conversion failed: " \o ErrorMessage(outcome))
    ELSE LET s1 == update_status(st, transaction_id, "CONVERSION_IN_PROGRESS",
                      [ad_bank_reference |-> ConversionReference(n)])
             s2 == add_event(s1, transaction_id, "CONVERSION_INITIATED", "system")
         IN IF s2.raised
            THEN Fail(Caught(s2), transaction_id, "Currency conversion failed: ClientError")
            ELSE Result(s2, "True")

\* process_upi_payment_confirmation with convert_currency called before the
\* payment is recorded.
upi_call_first(st, event_data, outcome) ==
    LET transaction_id == event_data.transaction_id IN
    IF ~Found(st, transaction_id) \/ event_data.status # "SUCCESS"
    THEN upi_begin(st, event_data)
    ELSE LET transaction == get_by_id(st, transaction_id)
             s1 == ProviderCall(st, "convert_currency",
                       <<transaction.amount_inr, transaction.exchange_rate>>)
             s2 == update_status(s1, transaction_id, "PAYMENT_RECEIVED",
                       [payment_details |->
                           ("upi_reference" :> event_data.upi_reference)
                               @@ transaction.payment_details])
             s3 == add_event(s2, transaction_id, "PAYMENT_RECEIVED", "system")
         IN upi_resume(s3, transaction_id, outcome, s3.calls.convert_currency)

process_upi_payment_confirmation(st, event_data, outcome) ==
    LET b == upi_begin(st, event_data) IN
    IF b.ret = "awaiting"
    THEN upi_resume(b.st, event_data.transaction_id, outcome, b.st.calls.convert_currency)
    ELSE b

\* adbank_begin that records a failure event for an unknown transaction.
adbank_begin_records_unknown(st, event_data) ==
    LET transaction_id == event_data.transaction_id IN
    IF ~Found(st, transaction_id)
    THEN Result(add_event(st, transaction_id, "TRANSACTION_FAILED", "system"), "False")
    ELSE LET transaction == get_by_id(st, transaction_id) IN
         IF event_data.status # "SUCCESS"
         THEN Fail(st, transaction_id, "Currency conversion failed: Unknown error")
         ELSE LET s1 == update_status(st, transaction_id, "CONVERSION_COMPLETE", <<>>)
                  s2 == add_event(s1, transaction_id, "CONVERSION_COMPLETED", "system")
              IN Pending(ProviderCall(s2, "create_transfer",
                             <<transaction.amount_cad, transaction.recipient_details>>))

\* process_adbank_conversion_callback up to the awaited create_transfer.
adbank_begin(st, event_data) ==
    LET transaction_id == event_data.transaction_id IN
    IF ~Found(st, transaction_id) THEN Result(st, "False")
    ELSE LET transaction == get_by_id(st, transaction_id) IN
         IF event_data.status # "SUCCESS"
         THEN Fail(st, transaction_id, "Currency conversion failed: Unknown error")
         ELSE LET s1 == update_status(st, transaction_id, "CONVERSION_COMPLETE", <<>>)
                  s2 == add_event(s1, transaction_id, "CONVERSION_COMPLETED", "system")
              IN Pending(ProviderCall(s2, "create_transfer",
                             <<transaction.amount_cad, transaction.recipient_details>>))

\* adbank_resume whose except branch lets a timeout pass: False, nothing written.
adbank_resume_timeout_ignored(st, transaction_id, outcome, n) ==
    IF outcome = "timeout" THEN Result(st, "False")
    ELSE IF outcome # "ok"
    THEN Fail(st, transaction_id, "Transfer to Canada failed: " \o ErrorMessage(outcome))
    ELSE LET s1 == update_status(st, transaction_id, "FUNDS_SENT",
                      [wise_transfer_id |-> TransferId(n)])
             s2 == add_event(s1, transaction_id, "TRANSFER_INITIATED", "system")
         IN IF s2.raised
            THEN Fail(Caught(s2), transaction_id, "Transfer to Canada failed: ClientError")
            ELSE Result(s2, "True")

\* process_adbank_conversion_callback from the answer of create_transfer: the
\* try block and its except branch, which also catches what the writes raise.
adbank_resume(st, transaction_id, outcome, n) ==
    IF outcome # "ok"
    THEN Fail(st, transaction_id, "Transfer to Canada failed: " \o ErrorMessage(outcome))
    ELSE LET s1 == update_status(st, transaction_id, "FUNDS_SENT",
                      [wise_transfer_id |-> TransferId(n)])
             s2 == add_event(s1, transaction_id, "TRANSFER_INITIATED", "system")
         IN IF s2.raised
            THEN Fail(Caught(s2), transaction_id, "Transfer to Canada failed: ClientError")
            ELSE Result(s2, "True")

process_adbank_conversion_callback(st, event_data, outcome) ==
    LET b == adbank_begin(st, event_data) IN
    IF b.ret = "awaiting"
    THEN adbank_resume(b.st, event_data.transaction_id, outcome, b.st.calls.create_transfer)
    ELSE b

\* process_wise_transfer_callback without its TRANSACTION_COMPLETED event.
wise_without_completed_event(st, event_data) ==
    LET transaction_id == event_data.transaction_id IN
    IF ~Found(st, transaction_id) THEN Result(st, "False")
    ELSE IF event_data.status # "SUCCESS"
         THEN Fail(st, transaction_id, "Transfer to Canada failed: None")
         ELSE LET s1 == update_status(st, transaction_id, "COMPLETED", <<>>)
                  s2 == add_event(s1, transaction_id, "TRANSFER_COMPLETED", "system")
              IN Result(s2, "True")

\* process_wise_transfer_callback: no provider call, no await.
process_wise_transfer_callback(st, event_data) ==
    LET transaction_id == event_data.transaction_id IN
    IF ~Found(st, transaction_id) THEN Result(st, "False")
    ELSE IF event_data.status # "SUCCESS"
         THEN Fail(st, transaction_id, "Transfer to Canada failed: None")
         ELSE LET s1 == update_status(st, transaction_id, "COMPLETED", <<>>)
                  s2 == add_event(s1, transaction_id, "TRANSFER_COMPLETED", "system")
                  s3 == add_event(s2, transaction_id, "TRANSACTION_COMPLETED", "system")
              IN Result(s3, "True")

\* The orders in which a query of TransactionEvents hands back the events of
\* one transaction: the table's order is that of the sort key event_id, a
\* uuid4, which is unrelated to the order of the appends.
QueryOrders == {"appended", "reversed"}

Reverse(items) == [i \in DOMAIN items |-> items[Len(items) + 1 - i]]

\* TransactionEventRepository.get_events_for_transaction
get_events_for_transaction(st, transaction_id, order) ==
    LET stored == SelectSeq(st.events, LAMBDA e : e.transaction_id = transaction_id)
    IN IF order = "reversed" THEN Reverse(stored) ELSE stored

\* sorted(events, key=lambda e: e.event_timestamp): a stable sort, an event
\* goes behind the events whose timestamp is not later than its own.
InsertByTimestamp(sorted, event) ==
    LET before == SelectSeq(sorted, LAMBDA e : e.event_timestamp <= event.event_timestamp)
        after == SelectSeq(sorted, LAMBDA e : e.event_timestamp > event.event_timestamp)
    IN before \o <<event>> \o after

RECURSIVE SortedByTimestamp(_)
SortedByTimestamp(items) ==
    IF items = <<>> THEN <<>>
    ELSE InsertByTimestamp(SortedByTimestamp(SubSeq(items, 1, Len(items) - 1)),
                           items[Len(items)])

\* get_transaction_status that returns the events as the store handed them back.
get_transaction_status_unsorted(st, transaction_id, order) ==
    IF ~Found(st, transaction_id)
    THEN [st |-> st, ret |-> "ValueError: not found", history |-> <<>>]
    ELSE LET returned == get_events_for_transaction(st, transaction_id, order)
         IN [st |-> st, ret |-> get_by_id(st, transaction_id).status,
             history |-> [i \in DOMAIN returned |->
                             [event_type |-> returned[i].event_type,
                              timestamp |-> returned[i].event_timestamp]]]

\* get_transaction_status: the stored status and the history, the events of the
\* transaction sorted by event_timestamp.
get_transaction_status(st, transaction_id, order) ==
    IF ~Found(st, transaction_id)
    THEN [st |-> st, ret |-> "ValueError: not found", history |-> <<>>]
    ELSE LET returned == get_events_for_transaction(st, transaction_id, order)
             sorted == SortedByTimestamp(returned)
         IN [st |-> st, ret |-> get_by_id(st, transaction_id).status,
             history |-> [i \in DOMAIN sorted |->
                             [event_type |-> sorted[i].event_type,
                              timestamp |-> sorted[i].event_timestamp]]]

\* calculate_remittance that stores the rate it fetched, as create_remittance does.
calculate_remittance_stores_rate(st, amount_inr, exchange_rate) ==
    LET s1 == ProviderCall(st, "get_exchange_rate", <<"INR_CAD">>)
        s2 == add_rate(s1, "INR_CAD", exchange_rate, "AD_BANK")
        fee_percent == DEFAULT_SERVICE_FEE_PERCENT \div 100
        fee_amount == amount_inr * fee_percent
    IN [st |-> s2, ret |-> "RemittanceCalculation",
        body |-> [amount_inr |-> Units(amount_inr), exchange_rate |-> exchange_rate,
                  amount_cad |-> amount_inr * exchange_rate,
                  fee_percent |-> fee_percent * 100, fee_amount |-> fee_amount,
                  total_amount_inr |-> Units(amount_inr) + fee_amount]]

\* calculate_remittance that returns the fee fraction as fee_percent.
calculate_remittance_fee_fraction(st, amount_inr, exchange_rate) ==
    LET s1 == ProviderCall(st, "get_exchange_rate", <<"INR_CAD">>)
        fee_percent == DEFAULT_SERVICE_FEE_PERCENT \div 100
        fee_amount == amount_inr * fee_percent
    IN [st |-> s1, ret |-> "RemittanceCalculation",
        body |-> [amount_inr |-> Units(amount_inr), exchange_rate |-> exchange_rate,
                  amount_cad |-> amount_inr * exchange_rate,
                  fee_percent |-> fee_percent, fee_amount |-> fee_amount,
                  total_amount_inr |-> Units(amount_inr) + fee_amount]]

\* calculate_remittance: one rate query, then arithmetic; exchange_rate is what
\* get_exchange_rate answered.
calculate_remittance(st, amount_inr, exchange_rate) ==
    LET s1 == ProviderCall(st, "get_exchange_rate", <<"INR_CAD">>)
        amount_cad == amount_inr * exchange_rate
        fee_percent == DEFAULT_SERVICE_FEE_PERCENT \div 100
        fee_amount == amount_inr * fee_percent
        total_amount_inr == Units(amount_inr) + fee_amount
    IN [st |-> s1, ret |-> "RemittanceCalculation",
        body |-> [amount_inr |-> Units(amount_inr), exchange_rate |-> exchange_rate,
                  amount_cad |-> amount_cad, fee_percent |-> fee_percent * 100,
                  fee_amount |-> fee_amount, total_amount_inr |-> total_amount_inr]]

-----------------------------------------------------------------------------
(* app/api/v1/routes and app/models/remittance.py: the HTTP endpoints.     *)

\* validate_amount without its upper limit.
validate_amount_no_maximum(amount_inr) ==
    amount_inr > 0 /\ amount_inr >= MIN_TRANSACTION_AMOUNT_INR

\* RemittanceRequest: amount_inr is Field(..., gt=0) and validate_amount raises
\* ValueError below 1000 and above 100000; TRUE when the request is accepted.
validate_amount(amount_inr) ==
    /\ amount_inr > 0
    /\ ~(amount_inr < MIN_TRANSACTION_AMOUNT_INR)
    /\ ~(amount_inr > MAX_TRANSACTION_AMOUNT_INR)

ValueErrors == {"ValueError: not found", "ValueError: not in INITIATED state"}

\* What an endpoint answers: the store it leaves, the status code and the body.
HttpResponse(st, status_code, ret, body) ==
    [st |-> st, ret |-> ret, status_code |-> status_code, body |-> body, history |-> <<>>]

\* try: return await service method; except ValueError: HTTPException(on_value_error);
\* except Exception: HTTPException(500).
Respond(r, on_value_error, body) ==
    IF r.ret \in ValueErrors THEN HttpResponse(r.st, on_value_error, r.ret, <<>>)
    ELSE IF r.st.raised THEN HttpResponse(Caught(r.st), 500, r.ret, <<>>)
    ELSE HttpResponse(r.st, 200, r.ret, body)

\* POST /remittances/: the body is parsed into a RemittanceRequest before the
\* route function is called; a body that fails validation is answered with 422.
create_remittance_route(st, transaction_id, sender_id, amount_inr, exchange_rate) ==
    IF ~validate_amount(amount_inr)
    THEN HttpResponse(st, 422, "RequestValidationError", <<>>)
    ELSE Respond(create_remittance(st, transaction_id, sender_id, amount_inr,
                                   exchange_rate), 400, <<>>)

\* POST /remittances/{transaction_id}/confirm
confirm_remittance_route(st, transaction_id, upi_id, outcome) ==
    LET r == confirm_remittance(st, transaction_id, upi_id, outcome) IN
    IF r.ret \in {"Exception: timeout", "Exception: provider"}
    THEN HttpResponse(r.st, 500, r.ret, <<>>)
    ELSE Respond(r, 400, <<>>)

\* GET /remittances/{transaction_id}
get_remittance_status(st, transaction_id, order) ==
    LET r == get_transaction_status(st, transaction_id, order) IN
    [Respond(r, 404, <<>>) EXCEPT !.history = r.history]

\* POST /remittances/calculate: amount_inr is Body(..., embed=True), any Decimal.
calculate_remittance_route(st, amount_inr, exchange_rate) ==
    LET r == calculate_remittance(st, amount_inr, exchange_rate) IN
    Respond(r, 400, r.body)

\* A field of a parsed webhook event: the Python type of its value and the value.
Field(type, value) == [type |-> type, value |-> value]

\* UPIPaymentEvent: the fields of WebhookEvent (timestamp defaults to utcnow())
\* and its own.
UPIPaymentEvent(transaction_id, status) ==
    [event_type |-> Field("str", "payment"), event_id |-> Field("str", "uuid4"),
     timestamp |-> Field("datetime", "utcnow"), upi_reference |-> Field("str", "UPI12345"),
     transaction_id |-> Field("str", transaction_id), amount |-> Field("Decimal", 0),
     status |-> Field("str", status)]

ADBankEvent(transaction_id, status) ==
    [event_type |-> Field("str", "conversion"), event_id |-> Field("str", "uuid4"),
     timestamp |-> Field("datetime", "utcnow"), reference |-> Field("str", "ADBANK-REF"),
     transaction_id |-> Field("str", transaction_id), status |-> Field("str", status),
     currency_pair |-> Field("str", "INR_CAD"), source_amount |-> Field("Decimal", 0),
     target_amount |-> Field("Decimal", 0), error_code |-> Field("NoneType", None)]

WiseTransferEvent(transaction_id, status) ==
    [event_type |-> Field("str", "transfer"), event_id |-> Field("str", "uuid4"),
     timestamp |-> Field("datetime", "utcnow"), transfer_id |-> Field("str", "WISE-REF"),
     transaction_id |-> Field("str", transaction_id), status |-> Field("str", status),
     error_code |-> Field("NoneType", None), error_message |-> Field("NoneType", None)]

\* event.dict() as the handler reads it: the values by field name.
EventDict(event) == [k \in DOMAIN event |-> event[k].value]

\* json.dumps(event.dict()) with the default encoder: a value that is not a
\* str, a number, a bool or None raises TypeError.
JsonTypes == {"str", "int", "float", "bool", "NoneType"}

json_dumps(event) ==
    IF \A k \in DOMAIN event : event[k].type \in JsonTypes THEN "ok" ELSE "TypeError"

\* verify_*_webhook(request): the signature parameter is left to its default,
\* the Header(None) object, which is not falsy.
verify_webhook(x_signature) ==
    IF x_signature = None THEN "HTTPException: 401" ELSE "ok"

\* The end of a webhook route: acknowledged when the handler returned False,
\* success when it returned True, error when anything raised; always 200.
WebhookAnswer(r) ==
    IF r.st.raised
    THEN HttpResponse(Caught(r.st), 200, "error", [status |-> "error", processed |-> FALSE])
    ELSE IF r.ret = "False"
    THEN HttpResponse(r.st, 200, "acknowledged",
                      [status |-> "acknowledged", processed |-> FALSE])
    ELSE HttpResponse(r.st, 200, "success", [status |-> "success", processed |-> TRUE])

\* The except branch of a webhook route, for what raised before the handler ran.
WebhookError(st) ==
    HttpResponse(st, 200, "error", [status |-> "error", processed |-> FALSE])

\* upi_webhook whose except branch answers with a server error.
upi_webhook_error_500(st, event, outcome) ==
    IF verify_webhook("Header(None)") # "ok" \/ json_dumps(event) # "ok"
    THEN HttpResponse(st, 500, "error", [status |-> "error", processed |-> FALSE])
    ELSE WebhookAnswer(process_upi_payment_confirmation(st, EventDict(event), outcome))

\* POST /webhooks/upi: verify, log the event as JSON, call the handler.
upi_webhook(st, event, outcome) ==
    IF verify_webhook("Header(None)") # "ok" \/ json_dumps(event) # "ok"
    THEN WebhookError(st)
    ELSE WebhookAnswer(process_upi_payment_confirmation(st, EventDict(event), outcome))

\* POST /webhooks/adbank
adbank_webhook(st, event, outcome) ==
    IF verify_webhook("Header(None)") # "ok" \/ json_dumps(event) # "ok"
    THEN WebhookError(st)
    ELSE WebhookAnswer(process_adbank_conversion_callback(st, EventDict(event), outcome))

\* POST /webhooks/wise
wise_webhook(st, event) ==
    IF verify_webhook("Header(None)") # "ok" \/ json_dumps(event) # "ok"
    THEN WebhookError(st)
    ELSE WebhookAnswer(process_wise_transfer_callback(st, EventDict(event)))

-----------------------------------------------------------------------------
(* Spec: requests and callbacks handled one after the other, each handler  *)
(* running from its first line to its return.                              *)

NoCalls ==
    [get_exchange_rate |-> 0, generate_payment_link |-> 0,
     convert_currency |-> 0, create_transfer |-> 0]

StatusOf(table, transaction_id) ==
    IF transaction_id \in DOMAIN table THEN table[transaction_id].status ELSE "NOTFOUND"

\* The record of one step: the handler, its input (the callback's status), the
\* answer of the provider call it awaited ("-" when it awaited none), the stored
\* status it started from, what it returned or raised, and its effects in order;
\* fault is the write that raised first (0 for none), history what GetStatus
\* returned, input the amount requested of create_remittance and the rate
\* get_exchange_rate answered, or the order in which the store handed the
\* events to get_transaction_status; status_code and body are the answer of an
\* HTTP endpoint (0 and empty when the method was called directly).
Op(name, transaction_id, status, outcome, r) ==
    [op |-> name, transaction_id |-> transaction_id, status |-> status,
     outcome |-> outcome, pre |-> StatusOf(transactions, transaction_id),
     ret |-> r.ret, trace |-> r.st.trace, fault |-> 0, history |-> <<>>,
     input |-> <<>>, status_code |-> 0, body |-> <<>>]

Called(r, name) == \E i \in DOMAIN r.st.trace :
    r.st.trace[i][1] = "call" /\ r.st.trace[i][2] = name

Answer(r, name, outcome) == IF Called(r, name) THEN outcome ELSE "-"

Commit(r) ==
    /\ transactions' = r.st.transactions
    /\ events' = r.st.events
    /\ rates' = r.st.rates
    /\ calls' = r.st.calls

UpiEvent(transaction_id, status) ==
    [transaction_id |-> transaction_id, status |-> status, upi_reference |-> "UPI12345"]

CallbackEvent(transaction_id, status) ==
    [transaction_id |-> transaction_id, status |-> status]

\* A handler slot: idle, or suspended at its awaited provider call with the
\* locals it resumes with (loaded is the status of the transaction it read).
Procs == {"h1", "h2"}

Idle ==
    [pc |-> "idle", op |-> "-", transaction_id |-> "-", arg |-> "-", loaded |-> "-",
     call |-> 0]

Init ==
    /\ transactions = <<>>
    /\ events = <<>>
    /\ rates = <<>>
    /\ calls = NoCalls
    /\ delivered = 0
    /\ last = [op |-> "init", transaction_id |-> CreatedId, status |-> "-",
               outcome |-> "-", pre |-> "NOTFOUND", ret |-> "-", trace |-> <<>>,
               fault |-> 0, history |-> <<>>, input |-> <<>>, status_code |-> 0,
               body |-> <<>>]
    /\ scenario = "off"
    /\ handlers = [h \in Procs |-> Idle]

\* The writes that may raise in one run: none, or the fault-th and, when
\* sticky, every write after it.
NoFault == {<<0, FALSE>>}
Faults == NoFault \cup ((1..MaxFault) \X BOOLEAN)

Step(name, transaction_id, status, outcome, r, f) ==
    [Op(name, transaction_id, status, outcome, r) EXCEPT !.fault = f[1]]

\* A call of create_remittance: the transaction gets an id no transaction has (the
\* ids are taken in one order, CreatedId first).
CreateRemittanceOn(ids, amounts, exchange_rates, faults) ==
    \E transaction_id \in ids, sender_id \in Senders, amount_inr \in amounts,
       exchange_rate \in exchange_rates, f \in faults :
        /\ transaction_id \notin DOMAIN transactions
        /\ transaction_id # CreatedId => CreatedId \in DOMAIN transactions
        /\ LET r == create_remittance(StoreWithFault(f[1], f[2]), transaction_id,
                                      sender_id, amount_inr, exchange_rate)
           IN /\ r.st.calls.get_exchange_rate <= MaxCreates
              /\ Commit(r)
              /\ last' = [Step("create", transaction_id, "-", "-", r, f)
                              EXCEPT !.input = <<amount_inr, exchange_rate>>]
        /\ scenario' = IF f[1] = 0 THEN "created" ELSE "off"
        /\ UNCHANGED <<delivered, handlers>>

CreateRemittance == CreateRemittanceOn(IdSet, Amounts, Rates, NoFault)

\* A call of confirm_remittance.
ConfirmRemittanceOn(ids, max, faults) ==
    \E transaction_id \in ids, upi_id \in UpiIds, outcome \in ProviderOutcomes,
       f \in faults :
        LET r == confirm_remittance(StoreWithFault(f[1], f[2]), transaction_id,
                                    upi_id, outcome) IN
        /\ r.st.calls.generate_payment_link <= max
        /\ Commit(r)
        /\ last' = Step("confirm", transaction_id, "-",
                         Answer(r, "generate_payment_link", outcome), r, f)
        /\ scenario' = IF scenario = "created" /\ outcome = "ok" /\ f[1] = 0
                       THEN "confirmed" ELSE "off"
        /\ UNCHANGED <<delivered, handlers>>

ConfirmRemittance == ConfirmRemittanceOn(IdSet, MaxLinkCalls, NoFault)

\* A call of get_transaction_status.
GetStatusOn(ids) ==
    \E transaction_id \in ids, order \in QueryOrders :
        LET r == get_transaction_status(Store, transaction_id, order) IN
        /\ last' = [Op("status", transaction_id, "-", "-", r)
                        EXCEPT !.history = r.history, !.input = <<order>>]
        /\ UNCHANGED <<transactions, events, rates, calls, delivered, scenario, handlers>>

GetStatus == GetStatusOn(IdSet)

Deliver(transaction_id, max) ==
    /\ transaction_id \in DOMAIN transactions => delivered < max
    /\ delivered' = IF transaction_id \in DOMAIN transactions
                    THEN delivered + 1 ELSE delivered

\* A call of process_upi_payment_confirmation with a callback's payload.
CollectorCallbackOn(ids, max, faults) ==
    \E transaction_id \in ids, status \in CallbackStatuses, outcome \in ProviderOutcomes,
       f \in faults :
        LET r == process_upi_payment_confirmation(StoreWithFault(f[1], f[2]),
                     UpiEvent(transaction_id, status), outcome) IN
        /\ Deliver(transaction_id, max)
        /\ Commit(r)
        /\ last' = Step("upi", transaction_id, status,
                         Answer(r, "convert_currency", outcome), r, f)
        /\ scenario' = IF /\ scenario = "confirmed" /\ status = "SUCCESS"
                          /\ outcome = "ok" /\ f[1] = 0
                       THEN "collected" ELSE "off"
        /\ UNCHANGED handlers

CollectorCallback == CollectorCallbackOn(IdSet, MaxDeliveries, NoFault)

\* A call of process_adbank_conversion_callback with a callback's payload.
ConverterCallbackOn(ids, max, faults) ==
    \E transaction_id \in ids, status \in CallbackStatuses, outcome \in ProviderOutcomes,
       f \in faults :
        LET r == process_adbank_conversion_callback(StoreWithFault(f[1], f[2]),
                     CallbackEvent(transaction_id, status), outcome) IN
        /\ Deliver(transaction_id, max)
        /\ Commit(r)
        /\ last' = Step("adbank", transaction_id, status,
                         Answer(r, "create_transfer", outcome), r, f)
        /\ scenario' = IF /\ scenario = "collected" /\ status = "SUCCESS"
                          /\ outcome = "ok" /\ f[1] = 0
                       THEN "converted" ELSE "off"
        /\ UNCHANGED handlers

ConverterCallback == ConverterCallbackOn(IdSet, MaxDeliveries, NoFault)

\* A call of process_wise_transfer_callback with a callback's payload.
TransmitterCallbackOn(ids, max, faults) ==
    \E transaction_id \in ids, status \in CallbackStatuses, f \in faults :
        LET r == process_wise_transfer_callback(StoreWithFault(f[1], f[2]),
                     CallbackEvent(transaction_id, status)) IN
        /\ Deliver(transaction_id, max)
        /\ Commit(r)
        /\ last' = Step("wise", transaction_id, status, "-", r, f)
        /\ scenario' = IF scenario = "converted" /\ status = "SUCCESS" /\ f[1] = 0
                       THEN "transferred" ELSE "off"
        /\ UNCHANGED handlers

TransmitterCallback == TransmitterCallbackOn(IdSet, MaxDeliveries, NoFault)

Next ==
    \/ CreateRemittance
    \/ ConfirmRemittance
    \/ GetStatus
    \/ CollectorCallback
    \/ ConverterCallback
    \/ TransmitterCallback

Spec == Init /\ [][Next]_vars

-----------------------------------------------------------------------------
(* SpecConc: up to two handlers in flight for the same transaction_id.  A  *)
(* handler is suspended only at its awaited provider call (asyncio), so a  *)
(* step is a *_begin part or a *_resume part; other handlers may run       *)
(* between the two.                                                        *)

Suspend(h, name, transaction_id, arg, r, n) ==
    handlers' = [handlers EXCEPT ![h] =
        IF r.ret = "awaiting"
        THEN [pc |-> "awaiting", op |-> name, transaction_id |-> transaction_id,
              arg |-> arg, loaded |-> StatusOf(transactions, transaction_id),
              call |-> n]
        ELSE Idle]

BeginConfirm(h) ==
    \E transaction_id \in IdSet, upi_id \in UpiIds :
        LET r == confirm_begin(Store, transaction_id, upi_id) IN
        /\ handlers[h].pc = "idle"
        /\ r.st.calls.generate_payment_link <= MaxLinkCalls
        /\ Commit(r)
        /\ last' = Op("confirm", transaction_id, "-", "-", r)
        /\ Suspend(h, "confirm", transaction_id, upi_id, r, r.st.calls.generate_payment_link)
        /\ scenario' = "off"
        /\ UNCHANGED delivered

ResumeConfirm(h) ==
    \E outcome \in ProviderOutcomes :
        LET me == handlers[h]
            r == confirm_resume(Store, me.transaction_id, me.arg, outcome) IN
        /\ me.pc = "awaiting" /\ me.op = "confirm"
        /\ Commit(r)
        /\ last' = Op("confirm", me.transaction_id, "-", outcome, r)
        /\ handlers' = [handlers EXCEPT ![h] = Idle]
        /\ scenario' = "off"
        /\ UNCHANGED delivered

BeginCollector(h) ==
    \E transaction_id \in IdSet, status \in CallbackStatuses :
        LET r == upi_begin(Store, UpiEvent(transaction_id, status)) IN
        /\ handlers[h].pc = "idle"
        /\ Deliver(transaction_id, MaxConcDeliveries)
        /\ Commit(r)
        /\ last' = Op("upi", transaction_id, status, "-", r)
        /\ Suspend(h, "upi", transaction_id, status, r, r.st.calls.convert_currency)
        /\ scenario' = "off"

ResumeCollector(h) ==
    \E outcome \in ProviderOutcomes :
        LET me == handlers[h]
            r == upi_resume(Store, me.transaction_id, outcome, me.call) IN
        /\ me.pc = "awaiting" /\ me.op = "upi"
        /\ Commit(r)
        /\ last' = Op("upi", me.transaction_id, me.arg, outcome, r)
        /\ handlers' = [handlers EXCEPT ![h] = Idle]
        /\ scenario' = "off"
        /\ UNCHANGED delivered

BeginConverter(h) ==
    \E transaction_id \in IdSet, status \in CallbackStatuses :
        LET r == adbank_begin(Store, CallbackEvent(transaction_id, status)) IN
        /\ handlers[h].pc = "idle"
        /\ Deliver(transaction_id, MaxConcDeliveries)
        /\ Commit(r)
        /\ last' = Op("adbank", transaction_id, status, "-", r)
        /\ Suspend(h, "adbank", transaction_id, status, r, r.st.calls.create_transfer)
        /\ scenario' = "off"

ResumeConverter(h) ==
    \E outcome \in ProviderOutcomes :
        LET me == handlers[h]
            r == adbank_resume(Store, me.transaction_id, outcome, me.call) IN
        /\ me.pc = "awaiting" /\ me.op = "adbank"
        /\ Commit(r)
        /\ last' = Op("adbank", me.transaction_id, me.arg, outcome, r)
        /\ handlers' = [handlers EXCEPT ![h] = Idle]
        /\ scenario' = "off"
        /\ UNCHANGED delivered

RunTransmitter(h) ==
    \E transaction_id \in IdSet, status \in CallbackStatuses :
        LET r == process_wise_transfer_callback(
                     Store, CallbackEvent(transaction_id, status)) IN
        /\ handlers[h].pc = "idle"
        /\ Deliver(transaction_id, MaxConcDeliveries)
        /\ Commit(r)
        /\ last' = Op("wise", transaction_id, status, "-", r)
        /\ scenario' = "off"
        /\ UNCHANGED handlers

NextConc ==
    \/ CreateRemittance
    \/ \E h \in Procs :
        \/ BeginConfirm(h)
        \/ ResumeConfirm(h)
        \/ BeginCollector(h)
        \/ ResumeCollector(h)
        \/ BeginConverter(h)
        \/ ResumeConverter(h)
        \/ RunTransmitter(h)

SpecConc == Init /\ [][NextConc]_vars

-----------------------------------------------------------------------------
(* SpecMulti: two transactions side by side, the requests and callbacks    *)
(* that write to the tables, for either of them, handled one after the     *)
(* other.                                                                  *)

CreateRemittanceMulti == CreateRemittanceOn(MultiIds, MultiAmounts, MultiRates, NoFault)
ConfirmRemittanceMulti == ConfirmRemittanceOn(MultiIds, MaxMultiLinkCalls, NoFault)
CollectorCallbackMulti == CollectorCallbackOn(MultiIds, MaxMultiDeliveries, NoFault)
ConverterCallbackMulti == ConverterCallbackOn(MultiIds, MaxMultiDeliveries, NoFault)
TransmitterCallbackMulti == TransmitterCallbackOn(MultiIds, MaxMultiDeliveries, NoFault)

NextMulti ==
    \/ CreateRemittanceMulti
    \/ ConfirmRemittanceMulti
    \/ CollectorCallbackMulti
    \/ ConverterCallbackMulti
    \/ TransmitterCallbackMulti

SpecMulti == Init /\ [][NextMulti]_vars

-----------------------------------------------------------------------------
(* SpecFaulty: one transaction, requests and callbacks handled one after   *)
(* the other, with writes to the tables that may raise ClientError.        *)

CreateRemittanceFaulty == CreateRemittanceOn(IdSet, Amounts, Rates, Faults)
ConfirmRemittanceFaulty == ConfirmRemittanceOn(IdSet, MaxLinkCalls, Faults)
CollectorCallbackFaulty == CollectorCallbackOn(IdSet, MaxFaultyDeliveries, Faults)
ConverterCallbackFaulty == ConverterCallbackOn(IdSet, MaxFaultyDeliveries, Faults)
TransmitterCallbackFaulty == TransmitterCallbackOn(IdSet, MaxFaultyDeliveries, Faults)

NextFaulty ==
    \/ CreateRemittanceFaulty
    \/ ConfirmRemittanceFaulty
    \/ GetStatus
    \/ CollectorCallbackFaulty
    \/ ConverterCallbackFaulty
    \/ TransmitterCallbackFaulty

SpecFaulty == Init /\ [][NextFaulty]_vars

-----------------------------------------------------------------------------
(* SpecHttp: the service behind its HTTP endpoints, one request at a time.  *)

HttpStep(name, transaction_id, status, outcome, r) ==
    [Op(name, transaction_id, status, outcome, r)
        EXCEPT !.status_code = r.status_code, !.body = r.body, !.history = r.history]

PostRemittance ==
    \E transaction_id \in IdSet, sender_id \in Senders, amount_inr \in RequestAmounts,
       exchange_rate \in MultiRates :
        /\ transaction_id \notin DOMAIN transactions
        /\ LET r == create_remittance_route(Store, transaction_id, sender_id, amount_inr,
                                            exchange_rate)
           IN /\ r.st.calls.get_exchange_rate <= MaxRateQueries
              /\ Commit(r)
              /\ last' = [HttpStep("create", transaction_id, "-", "-", r)
                              EXCEPT !.input = <<amount_inr, exchange_rate>>]
        /\ UNCHANGED <<delivered, scenario, handlers>>

PostConfirm ==
    \E transaction_id \in HttpIds, upi_id \in UpiIds, outcome \in ProviderOutcomes :
        LET r == confirm_remittance_route(Store, transaction_id, upi_id, outcome) IN
        /\ r.st.calls.generate_payment_link <= MaxLinkCalls
        /\ Commit(r)
        /\ last' = HttpStep("confirm", transaction_id, "-",
                             Answer(r, "generate_payment_link", outcome), r)
        /\ UNCHANGED <<delivered, scenario, handlers>>

GetRemittance ==
    \E transaction_id \in HttpIds, order \in QueryOrders :
        LET r == get_remittance_status(Store, transaction_id, order) IN
        /\ Commit(r)
        /\ last' = [HttpStep("status", transaction_id, "-", "-", r)
                        EXCEPT !.input = <<order>>]
        /\ UNCHANGED <<delivered, scenario, handlers>>

PostCalculate ==
    \E amount_inr \in CalculateAmounts, exchange_rate \in MultiRates :
        LET r == calculate_remittance_route(Store, amount_inr, exchange_rate) IN
        /\ r.st.calls.get_exchange_rate <= MaxRateQueries
        /\ Commit(r)
        /\ last' = [HttpStep("calculate", None, "-", "-", r)
                        EXCEPT !.input = <<amount_inr, exchange_rate>>]
        /\ UNCHANGED <<delivered, scenario, handlers>>

PostUpiWebhook ==
    \E transaction_id \in HttpIds, status \in CallbackStatuses, outcome \in ProviderOutcomes :
        LET r == upi_webhook(Store, UPIPaymentEvent(transaction_id, status), outcome) IN
        /\ Commit(r)
        /\ last' = HttpStep("upi_webhook", transaction_id, status,
                             Answer(r, "convert_currency", outcome), r)
        /\ UNCHANGED <<delivered, scenario, handlers>>

PostAdbankWebhook ==
    \E transaction_id \in HttpIds, status \in CallbackStatuses, outcome \in ProviderOutcomes :
        LET r == adbank_webhook(Store, ADBankEvent(transaction_id, status), outcome) IN
        /\ Commit(r)
        /\ last' = HttpStep("adbank_webhook", transaction_id, status,
                             Answer(r, "create_transfer", outcome), r)
        /\ UNCHANGED <<delivered, scenario, handlers>>

PostWiseWebhook ==
    \E transaction_id \in HttpIds, status \in CallbackStatuses :
        LET r == wise_webhook(Store, WiseTransferEvent(transaction_id, status)) IN
        /\ Commit(r)
        /\ last' = HttpStep("wise_webhook", transaction_id, status, "-", r)
        /\ UNCHANGED <<delivered, scenario, handlers>>

NextHttp ==
    \/ PostRemittance
    \/ PostConfirm
    \/ GetRemittance
    \/ PostCalculate
    \/ PostUpiWebhook
    \/ PostAdbankWebhook
    \/ PostWiseWebhook

SpecHttp == Init /\ [][NextHttp]_vars

-----------------------------------------------------------------------------
(* Vocabulary of the properties *)

\* Spec section 4.1: the legal forward transitions.
TransitionTable ==
    {<<"INITIATED", "PAYMENT_PENDING">>,
     <<"PAYMENT_PENDING", "PAYMENT_RECEIVED">>,
     <<"PAYMENT_RECEIVED", "CONVERSION_IN_PROGRESS">>,
     <<"CONVERSION_IN_PROGRESS", "CONVERSION_COMPLETE">>,
     <<"CONVERSION_COMPLETE", "FUNDS_SENT">>,
     <<"FUNDS_SENT", "COMPLETED">>}

Terminal == {"COMPLETED", "FAILED", "REFUNDED"}

LegalMove(from, to) ==
    \/ <<from, to>> \in TransitionTable
    \/ to = "FAILED" /\ from \notin Terminal

\* The status a callback's first transition starts from.
ExpectedSource(op, status) ==
    IF status # "SUCCESS" THEN TransactionStatus \ Terminal
    ELSE CASE op = "upi" -> {"PAYMENT_PENDING"}
           [] op = "adbank" -> {"CONVERSION_IN_PROGRESS"}
           [] op = "wise" -> {"FUNDS_SENT"}

\* The statuses in which the transition a success callback reports is already applied.
AlreadyApplied(op) ==
    CASE op = "upi" -> {"PAYMENT_RECEIVED", "CONVERSION_IN_PROGRESS", "CONVERSION_COMPLETE",
                        "FUNDS_SENT", "COMPLETED"}
      [] op = "adbank" -> {"CONVERSION_COMPLETE", "FUNDS_SENT", "COMPLETED"}
      [] op = "wise" -> {"COMPLETED"}

CallbackOps == {"upi", "adbank", "wise"}

Writes(trace) == {i \in DOMAIN trace : trace[i][1] = "update_status"}

TraceCount(trace, kind, what) ==
    Cardinality({i \in DOMAIN trace : trace[i][1] = kind /\ trace[i][2] = what})

ProviderCalls(trace) == {i \in DOMAIN trace : trace[i][1] = "call"}

EventCount(event_type) ==
    Cardinality({i \in DOMAIN events : events[i].event_type = event_type})

EventTypes == [i \in DOMAIN events |-> events[i].event_type]

RECURSIVE IsSubsequence(_, _)
IsSubsequence(p, s) ==
    IF p = <<>> THEN TRUE
    ELSE IF s = <<>> THEN FALSE
    ELSE IF Head(p) = Head(s) THEN IsSubsequence(Tail(p), Tail(s))
    ELSE IsSubsequence(p, Tail(s))

Exists == CreatedId \in DOMAIN transactions
Tx == transactions[CreatedId]

CompletedHistory ==
    <<"TRANSACTION_CREATED", "PAYMENT_INITIATED", "PAYMENT_RECEIVED", "CONVERSION_INITIATED",
      "CONVERSION_COMPLETED", "TRANSFER_INITIATED", "TRANSFER_COMPLETED",
      "TRANSACTION_COMPLETED">>

-----------------------------------------------------------------------------
(* Properties *)

\* C1: every change of the persisted status made by ConfirmRemittance or by a
\* callback handler is one row of the transition table or a move from a
\* non-terminal status to FAILED; the status never moves back.
C1_StatusOnlyAdvances ==
    last.op \in CallbackOps \cup {"confirm"} =>
        \A i \in Writes(last.trace) : LegalMove(last.trace[i][3], last.trace[i][2])

\* C2: a callback whose expected source status does not match the stored status
\* is rejected without side effect: no write, no event, no provider call.
C2_MismatchRejected ==
    (/\ last.op \in CallbackOps
     /\ last.pre # "NOTFOUND"
     /\ last.pre \notin ExpectedSource(last.op, last.status))
        => last.trace = <<>>

\* C3: the same successful collector callback delivered twice in a row to a
\* PAYMENT_PENDING transaction leaves exactly one PAYMENT_RECEIVED event and
\* exactly one convert_currency call.
C3_DuplicateCollectorOnce ==
    [][(/\ last.op = "upi" /\ last.status = "SUCCESS" /\ last.pre = "PAYMENT_PENDING"
        /\ last'.op = "upi" /\ last'.status = "SUCCESS")
           => (/\ EventCount("PAYMENT_RECEIVED")' = 1
               /\ calls'.convert_currency = 1)]_vars

\* C4: a success callback that arrives after the transition it reports has been
\* applied is acknowledged and has no effect: no write, no event, no provider call.
C4_DuplicateIsNoOp ==
    (/\ last.op \in CallbackOps
     /\ last.status = "SUCCESS"
     /\ last.pre \in AlreadyApplied(last.op))
        => (last.trace = <<>> /\ last.ret = "True")

\* C6: once the stored status is FAILED no confirmation and no callback changes
\* it, and no provider gateway is called for the transaction.
C6_FailedIsTerminal ==
    (last.op \in CallbackOps \cup {"confirm"} /\ last.pre = "FAILED")
        => (/\ \A i \in Writes(last.trace) : last.trace[i][2] = "FAILED"
            /\ ProviderCalls(last.trace) = {}
            /\ Tx.status = "FAILED")

\* How a failed provider call must leave the transaction (C7).
FailedWithOneEvent ==
    /\ Tx.status = "FAILED"
    /\ Tx.failure_reason \notin {None, ""}
    /\ TraceCount(last.trace, "add_event", "TRANSACTION_FAILED") = 1

C8_CompletedHistoryOrdered ==
    (Exists /\ Tx.status = "COMPLETED") => IsSubsequence(CompletedHistory, EventTypes)

\* C9: happy path: after confirm the status is PAYMENT_PENDING, after the
\* collector's SUCCESS CONVERSION_IN_PROGRESS, after the converter's SUCCESS
\* FUNDS_SENT, after the transmitter's SUCCESS COMPLETED with exactly 8 events.
C9_HappyPath ==
    /\ scenario = "confirmed" => Tx.status = "PAYMENT_PENDING"
    /\ scenario = "collected" => Tx.status = "CONVERSION_IN_PROGRESS"
    /\ scenario = "converted" => Tx.status = "FUNDS_SENT"
    /\ scenario = "transferred" => (Tx.status = "COMPLETED" /\ Len(events) = 8)

C9_Witness == scenario = "transferred" /\ last.op = "wise" /\ last.ret = "True"

\* C10: a collector callback whose status is not SUCCESS, for a PAYMENT_PENDING
\* transaction, sets FAILED with a failure_reason, appends TRANSACTION_FAILED,
\* returns False and makes no convert_currency call.
C10_CollectorFailure ==
    (last.op = "upi" /\ last.status # "SUCCESS" /\ last.pre = "PAYMENT_PENDING")
        => (/\ Tx.status = "FAILED"
            /\ Tx.failure_reason # None
            /\ TraceCount(last.trace, "add_event", "TRANSACTION_FAILED") = 1
            /\ EventTypes[Len(events)] = "TRANSACTION_FAILED"
            /\ last.ret = "False"
            /\ TraceCount(last.trace, "call", "convert_currency") = 0
            /\ calls.convert_currency = 0)

C10_Witness ==
    /\ last.op = "upi" /\ last.status = "FAILURE" /\ last.pre = "PAYMENT_PENDING"
    /\ Tx.status = "FAILED"

-----------------------------------------------------------------------------
(* Properties of the operations (C11 to C20) *)

IsPrefix(s, t) == Len(s) <= Len(t) /\ SubSeq(t, 1, Len(s)) = s

LastTx == transactions[last.transaction_id]

Created == last.op = "create" /\ last.ret = "INITIATED"

\* C11: the transaction created for a valid request has amount_cad = amount_inr x
\* rate, fees = amount_inr x (configured percent / 100), the exchange_rate the
\* Converter Gateway answered and status INITIATED; 10000 at 0.017 with 0.5 %
\* gives 170 and 50.
C11_CreatedAmounts ==
    Created =>
        LET amount_inr == last.input[1]
            rate == last.input[2]
        IN /\ LastTx.status = "INITIATED"
           /\ LastTx.amount_inr = Units(amount_inr)
           /\ LastTx.exchange_rate = rate
           /\ LastTx.amount_cad = amount_inr * rate
           /\ LastTx.fees = (amount_inr * DEFAULT_SERVICE_FEE_PERCENT) \div 100
           /\ (amount_inr = 10000 /\ rate = 170)
                  => (LastTx.amount_cad = Units(170) /\ LastTx.fees = Units(50))

C11_Witness ==
    /\ Created /\ last.input = <<10000, 170>>
    /\ LastTx.amount_cad = Units(170) /\ LastTx.fees = Units(50)

\* C12: a successful CreateRemittance makes exactly one rate query, for INR_CAD,
\* appends exactly one rate quote with the rate answered, creates exactly one
\* transaction record and appends exactly one event, TRANSACTION_CREATED with the
\* sender id as actor; every other transaction is left as it was.
C12_CreateEffects ==
    [][Created' =>
        LET id == last'.transaction_id IN
        /\ calls' = [calls EXCEPT !.get_exchange_rate = @ + 1]
        /\ \E i \in ProviderCalls(last'.trace) :
               /\ ProviderCalls(last'.trace) = {i}
               /\ last'.trace[i][2] = "get_exchange_rate"
               /\ last'.trace[i][3] = <<"INR_CAD">>
        /\ rates' = Append(rates, ExchangeRate("INR_CAD", last'.input[2], "AD_BANK"))
        /\ id \notin DOMAIN transactions
        /\ DOMAIN transactions' = DOMAIN transactions \cup {id}
        /\ \A other \in DOMAIN transactions : transactions'[other] = transactions[other]
        /\ Len(events') = Len(events) + 1
        /\ IsPrefix(events, events')
        /\ events'[Len(events')].transaction_id = id
        /\ events'[Len(events')].event_type = "TRANSACTION_CREATED"
        /\ events'[Len(events')].actor = transactions'[id].user_id
        /\ transactions'[id].user_id \in Senders]_vars

C12_Witness ==
    /\ Created /\ last.transaction_id # CreatedId
    /\ CreatedId \in DOMAIN transactions
    /\ transactions[CreatedId].status = "CONVERSION_IN_PROGRESS"
    /\ Len(rates) = 2

\* The effects of the last operation, without their arguments.
Effects == [i \in DOMAIN last.trace |-> <<last.trace[i][1], last.trace[i][2]>>]

\* C13: a successful collector callback for a PAYMENT_PENDING transaction, with
\* a succeeding convert_currency, does in this order: write PAYMENT_RECEIVED,
\* append PAYMENT_RECEIVED, call convert_currency, write CONVERSION_IN_PROGRESS
\* with the converter's reference, append CONVERSION_INITIATED; nothing else;
\* then it returns True.
C13_CollectorSuccessOrder ==
    (/\ last.op = "upi" /\ last.status = "SUCCESS"
     /\ last.pre = "PAYMENT_PENDING" /\ last.outcome = "ok")
        => (/\ Effects = << <<"update_status", "PAYMENT_RECEIVED">>,
                            <<"add_event", "PAYMENT_RECEIVED">>,
                            <<"call", "convert_currency">>,
                            <<"update_status", "CONVERSION_IN_PROGRESS">>,
                            <<"add_event", "CONVERSION_INITIATED">> >>
            /\ Tx.ad_bank_reference = ConversionReference(calls.convert_currency)
            /\ Tx.status = "CONVERSION_IN_PROGRESS"
            /\ last.ret = "True")

C13_Witness ==
    /\ last.op = "upi" /\ last.status = "SUCCESS"
    /\ last.pre = "PAYMENT_PENDING" /\ last.outcome = "ok"
    /\ last.ret = "True" /\ Len(last.trace) = 5

\* C14: ConfirmRemittance on a transaction whose status is not INITIATED raises
\* the invalid-state ValueError, appends no event, calls no gateway and leaves
\* the record as it was.
C14_ConfirmNeedsInitiated ==
    [][(last'.op = "confirm" /\ last'.pre \notin {"INITIATED", "NOTFOUND"})
          => (/\ last'.ret = "ValueError: not in INITIATED state"
              /\ last'.trace = <<>>
              /\ UNCHANGED <<transactions, events, rates, calls>>)]_vars

C14_Witness ==
    /\ last.op = "confirm" /\ last.pre = "CONVERSION_IN_PROGRESS"
    /\ last.ret = "ValueError: not in INITIATED state"

Raised == \E i \in DOMAIN last.trace : last.trace[i][1] = "raise"

\* C15: a callback handler always returns a boolean and never raises, also when
\* a status update or an event append fails during the handler; the failure is
\* recorded as FAILED status plus an event and the handler returns False.
C15_HandlersNeverRaise ==
    last.op \in CallbackOps
        => (/\ last.ret \in {"True", "False"}
            /\ Raised => (/\ last.ret = "False"
                          /\ LastTx.status = "FAILED"
                          /\ TraceCount(last.trace, "add_event", "TRANSACTION_FAILED") = 1))

\* C16: a callback for a transaction_id that does not exist returns False and
\* does nothing: no record created or changed, no event, no gateway call.
C16_UnknownIdIsNoOp ==
    [][(last'.op \in CallbackOps /\ last'.pre = "NOTFOUND")
          => (/\ last'.ret = "False"
              /\ last'.trace = <<>>
              /\ UNCHANGED <<transactions, events, rates, calls>>)]_vars

C16_Witness ==
    /\ last.op = "adbank" /\ last.status = "SUCCESS" /\ last.pre = "NOTFOUND"
    /\ last.transaction_id # CreatedId /\ CreatedId \in DOMAIN transactions
    /\ last.ret = "False"

C18_FailureReasonOnlyWhenFailed ==
    (Exists /\ Tx.failure_reason # None) => Tx.status = "FAILED"

\* C19: when GetStatus returns FAILED, the transaction has a non-empty
\* failure_reason and the history returned holds a TRANSACTION_FAILED event.
C19_FailedIsExplained ==
    (last.op = "status" /\ last.ret = "FAILED")
        => (/\ Tx.failure_reason \notin {None, ""}
            /\ \E i \in DOMAIN last.history : last.history[i].event_type = "TRANSACTION_FAILED")

\* C20: the event log is append-only: at every step the events recorded before
\* are a prefix of the events recorded after.
C20_EventsAppendOnly == [][IsPrefix(events, events')]_vars

C20_Witness ==
    /\ EventCount("PAYMENT_RECEIVED") = 2
    /\ last.op = "upi" /\ last.ret = "True"

-----------------------------------------------------------------------------
(* Properties of SpecConc *)

InFlight(h, op) == handlers[h].pc = "awaiting" /\ handlers[h].op = op

\* C5: with two deliveries of the same success callback in flight for one
\* transaction, a transition is written only if the stored status is its
\* expected predecessor at the moment of the write, so the transition is
\* applied once: one event, one downstream provider call.
C5_ConcurrentAppliedOnce ==
    (/\ InFlight("h1", "upi") /\ InFlight("h2", "upi")
     /\ \E h \in Procs : handlers[h].loaded = "PAYMENT_PENDING")
        => (/\ \A i \in Writes(last.trace) :
                   <<last.trace[i][3], last.trace[i][2]>> \in TransitionTable
            /\ EventCount("PAYMENT_RECEIVED") <= 1
            /\ calls.convert_currency <= 1)

-----------------------------------------------------------------------------
(* References, frozen fields, completion, status queries, refunds *)

\* C21: once ad_bank_reference (the converter's reference) or wise_transfer_id
\* (the transmitter's reference) of a transaction is set, no later operation or
\* callback, a duplicate or late success callback included, replaces it with a
\* different value.
C21_ReferencesSetOnce ==
    [][\A id \in DOMAIN transactions :
          /\ transactions[id].ad_bank_reference # None
                => transactions'[id].ad_bank_reference = transactions[id].ad_bank_reference
          /\ transactions[id].wise_transfer_id # None
                => transactions'[id].wise_transfer_id = transactions[id].wise_transfer_id]_vars

FrozenFields ==
    {"transaction_id", "user_id", "amount_inr", "amount_cad", "exchange_rate", "fees",
     "recipient_details", "created_at"}

\* C22: transaction_id, user_id, amount_inr, amount_cad, exchange_rate, fees,
\* recipient_details and created_at of a stored transaction are never changed by
\* confirm_remittance, by a callback handler or by get_transaction_status.
C22_FrozenAfterCreation ==
    [][\A id \in DOMAIN transactions : \A k \in FrozenFields :
          transactions'[id][k] = transactions[id][k]]_vars

\* A completed transaction, every mutable field of which has been written, is queried.
C22_Witness ==
    /\ Exists
    /\ Tx.status = "COMPLETED"
    /\ Tx.payment_details # <<>>
    /\ Tx.ad_bank_reference # None
    /\ Tx.wise_transfer_id # None
    /\ last.op = "status"

\* C23: a transmitter callback with status SUCCESS for a transaction in
\* FUNDS_SENT sets the status to COMPLETED, appends exactly TRANSFER_COMPLETED
\* and then TRANSACTION_COMPLETED, returns True and calls no provider.
C23_TransmitterSuccessCompletes ==
    (last.op = "wise" /\ last.status = "SUCCESS" /\ last.pre = "FUNDS_SENT")
        => (/\ LastTx.status = "COMPLETED"
            /\ Effects = << <<"update_status", "COMPLETED">>,
                            <<"add_event", "TRANSFER_COMPLETED">>,
                            <<"add_event", "TRANSACTION_COMPLETED">> >>
            /\ last.ret = "True")

C23_Witness ==
    /\ last.op = "wise" /\ last.status = "SUCCESS" /\ last.pre = "FUNDS_SENT"
    /\ Tx.status = "COMPLETED"

EventsOf(transaction_id) ==
    SelectSeq(events, LAMBDA e : e.transaction_id = transaction_id)

\* C24: get_transaction_status of a stored transaction returns the stored status
\* and a history that is sorted by timestamp ascending whatever the order in
\* which the store handed back the events, and that holds every event appended
\* for the transaction and as many entries as events were appended.
C24_StatusHistorySorted ==
    (last.op = "status" /\ last.pre # "NOTFOUND")
        => (/\ last.ret = LastTx.status
            /\ Len(last.history) = Len(EventsOf(last.transaction_id))
            /\ \A i \in 1..(Len(last.history) - 1) :
                  last.history[i].timestamp <= last.history[i + 1].timestamp
            /\ \A j \in DOMAIN events : \E i \in DOMAIN last.history :
                  /\ last.history[i].event_type = events[j].event_type
                  /\ last.history[i].timestamp = events[j].event_timestamp)

\* The store handed back three or more events in an order that is not that of
\* their timestamps.
C24_Witness ==
    /\ last.op = "status"
    /\ last.input = <<"reversed">>
    /\ Len(last.history) >= 3

\* C27: no transaction ever has status REFUNDED and no REFUND_INITIATED or
\* REFUND_COMPLETED event is ever stored.
C27_NeverRefunded ==
    /\ \A id \in DOMAIN transactions : transactions[id].status # "REFUNDED"
    /\ \A i \in DOMAIN events :
          events[i].event_type \notin {"REFUND_INITIATED", "REFUND_COMPLETED"}

\* A transaction whose payment was received has failed.
C27_Witness ==
    /\ Exists
    /\ Tx.status = "FAILED"
    /\ EventCount("PAYMENT_RECEIVED") >= 1

-----------------------------------------------------------------------------
(* Properties of the endpoints (SpecHttp) *)

\* C25: a calculation leaves the transactions, the events and the stored rates
\* as they were and makes exactly one rate query of its own: the count of rate
\* queries grows by one with every calculation, whatever was fetched before.
C25_CalculateHasNoEffect ==
    [][last'.op = "calculate"
          => (/\ transactions' = transactions
              /\ events' = events
              /\ rates' = rates
              /\ calls' = [calls EXCEPT !.get_exchange_rate = @ + 1]
              /\ Len(last'.trace) = 1
              /\ TraceCount(last'.trace, "call", "get_exchange_rate") = 1)]_vars

\* A calculation made after a transaction was created and a rate fetched before.
C25_Witness ==
    /\ last.op = "calculate"
    /\ Exists
    /\ calls.get_exchange_rate >= 2

\* What create_remittance stores for the same amount and rate.
CreatedFor(amount_inr, exchange_rate) ==
    create_remittance([Store EXCEPT !.transactions = <<>>], CreatedId, "user123",
                      amount_inr, exchange_rate).st.transactions[CreatedId]

\* C26: a calculation for amount a with fetched rate x returns exchange_rate x,
\* amount_cad = a * x, fee_amount = a * (DEFAULT_SERVICE_FEE_PERCENT / 100),
\* total_amount_inr = a + fee_amount and fee_percent as the percentage (0.5),
\* the same amount_cad, fee and rate create_remittance stores for a and x.
C26_CalculateAmounts ==
    last.op = "calculate" =>
        LET amount_inr == last.input[1]
            exchange_rate == last.input[2]
            created == CreatedFor(amount_inr, exchange_rate)
        IN /\ last.status_code = 200
           /\ last.body.amount_inr = Units(amount_inr)
           /\ last.body.exchange_rate = exchange_rate
           /\ last.body.amount_cad = amount_inr * exchange_rate
           /\ last.body.fee_amount * 100 = amount_inr * DEFAULT_SERVICE_FEE_PERCENT
           /\ last.body.total_amount_inr = Units(amount_inr) + last.body.fee_amount
           /\ last.body.fee_percent = DEFAULT_SERVICE_FEE_PERCENT
           /\ last.body.amount_cad = created.amount_cad
           /\ last.body.fee_amount = created.fees
           /\ last.body.exchange_rate = created.exchange_rate

C26_Witness ==
    /\ last.op = "calculate"
    /\ last.input = <<100000, 165>>
    /\ last.body.total_amount_inr = 1005000000

\* C28: a creation request whose amount is below 1000 or above 100000 is
\* rejected and nothing is written or called for it: no rate query, no stored
\* rate, no transaction, no event.
C28_OutOfBoundsRejected ==
    (/\ last.op = "create"
     /\ (last.input[1] < MIN_TRANSACTION_AMOUNT_INR
            \/ last.input[1] > MAX_TRANSACTION_AMOUNT_INR))
        => (/\ last.status_code = 422
            /\ last.trace = <<>>
            /\ last.transaction_id \notin DOMAIN transactions
            /\ events = <<>>)

\* A request for one rupee more than the maximum was rejected.
C28_Witness ==
    /\ last.op = "create"
    /\ last.input[1] = MAX_TRANSACTION_AMOUNT_INR + 1
    /\ last.status_code = 422

\* C29: confirm_remittance and get_transaction_status with an id no transaction
\* has fail with the error "Transaction ... not found" and write nothing, append
\* no event and call no provider.
C29_UnknownIdNotFound ==
    (last.op \in {"confirm", "status"} /\ last.pre = "NOTFOUND")
        => (/\ last.ret = "ValueError: not found"
            /\ last.status_code \in {400, 404}
            /\ last.trace = <<>>
            /\ last.history = <<>>
            /\ last.transaction_id \notin DOMAIN transactions)

\* A confirmation for an unknown id while another transaction is stored.
C29_Witness ==
    /\ last.op = "confirm"
    /\ last.transaction_id = UnknownId
    /\ Exists
    /\ last.ret = "ValueError: not found"

-----------------------------------------------------------------------------
(* Payment before funds, propagation, audit trail, resting states (C31 to C38) *)

\* C31: create_transfer is called for a transaction only if its event log holds
\* a PAYMENT_RECEIVED and a CONVERSION_INITIATED event, and convert_currency only
\* if it holds a PAYMENT_INITIATED event, in whatever order the callbacks arrive.
C31_NoFundsWithoutPayment ==
    /\ (last.op = "adbank" /\ TraceCount(last.trace, "call", "create_transfer") >= 1)
          => (EventCount("PAYMENT_RECEIVED") >= 1 /\ EventCount("CONVERSION_INITIATED") >= 1)
    /\ (last.op = "upi" /\ TraceCount(last.trace, "call", "convert_currency") >= 1)
          => EventCount("PAYMENT_INITIATED") >= 1

\* C32: when generate_payment_link fails or times out inside confirm_remittance
\* the exception reaches the caller and nothing is stored: the transaction, its
\* status INITIATED and its payment_details, the events and the rates are as
\* they were before the call.
C32_ConfirmFailurePropagates ==
    [][(last'.op = "confirm" /\ last'.outcome \in {"fail", "timeout"})
          => (/\ last'.ret \in {"Exception: provider", "Exception: timeout"}
              /\ transactions' = transactions
              /\ events' = events
              /\ rates' = rates
              /\ transactions'[last'.transaction_id].status = "INITIATED"
              /\ Writes(last'.trace) = {})]_vars

\* A confirmation went through after an earlier one had failed on the provider.
C32_Witness ==
    /\ last.op = "confirm"
    /\ last.ret = "PAYMENT_PENDING"
    /\ calls.generate_payment_link = 2
    /\ EventCount("PAYMENT_INITIATED") = 1

C33_CallbackKeepsConfirmedKeys ==
    [][(/\ Exists
        /\ {"upi_id", "upi_link"} \subseteq DOMAIN Tx.payment_details
        /\ last'.op = "upi")
          => (/\ {"upi_id", "upi_link"} \subseteq DOMAIN Tx'.payment_details
              /\ Tx'.payment_details.upi_id = Tx.payment_details.upi_id
              /\ Tx'.payment_details.upi_link = Tx.payment_details.upi_link)]_vars

\* C34: of two confirmations in flight for the same INITIATED transaction at
\* most one succeeds: a confirmation that returns PAYMENT_PENDING leaves exactly
\* one PAYMENT_INITIATED event in the log.
C34_ConcurrentConfirmOnce ==
    (last.op = "confirm" /\ last.ret = "PAYMENT_PENDING")
        => EventCount("PAYMENT_INITIATED") = 1

\* The rate quoted when the transaction was created: the ids are taken in one
\* order and every creation appends one quote.
CreationRate(transaction_id) == rates[IF transaction_id = CreatedId THEN 1 ELSE 2].rate

\* C35: every provider call of a confirmation or a callback handler carries the
\* values stored at creation: generate_payment_link amount_inr + fees,
\* convert_currency amount_inr and the exchange_rate quoted at creation (whatever
\* was quoted since), create_transfer amount_cad and the recipient details.
C35_CallsUseFrozenValues ==
    last.op \in {"confirm", "upi", "adbank"} =>
        \A i \in ProviderCalls(last.trace) :
            LET name == last.trace[i][2]
                args == last.trace[i][3]
            IN /\ name = "generate_payment_link"
                     => args[1] = LastTx.amount_inr + LastTx.fees
               /\ name = "convert_currency"
                     => (/\ args = <<LastTx.amount_inr, LastTx.exchange_rate>>
                         /\ args[2] = CreationRate(last.transaction_id))
               /\ name = "create_transfer"
                     => args = <<LastTx.amount_cad, LastTx.recipient_details>>

\* A conversion was started for the first transaction after a different rate
\* had been quoted for the second.
C35_Witness ==
    /\ last.op = "upi"
    /\ last.transaction_id = CreatedId
    /\ TraceCount(last.trace, "call", "convert_currency") = 1
    /\ Len(rates) = 2
    /\ rates[2].rate # rates[1].rate

\* The event that records a status (C36).
AuditEvent ==
    [PAYMENT_PENDING |-> "PAYMENT_INITIATED", PAYMENT_RECEIVED |-> "PAYMENT_RECEIVED",
     CONVERSION_IN_PROGRESS |-> "CONVERSION_INITIATED",
     CONVERSION_COMPLETE |-> "CONVERSION_COMPLETED", FUNDS_SENT |-> "TRANSFER_INITIATED",
     COMPLETED |-> "TRANSACTION_COMPLETED", FAILED |-> "TRANSACTION_FAILED"]

\* C36: when a confirmation or a callback handler has finished, by returning or
\* by raising, every status it wrote is matched by its event in the log, also
\* when an event append or a later status write failed midway.
C36_StatusChangeHasEvent ==
    last.op \in CallbackOps \cup {"confirm"} =>
        \A i \in Writes(last.trace) : EventCount(AuditEvent[last.trace[i][2]]) >= 1

\* The statuses a callback handler leaves when it returns (C37, C38).
SuccessTarget == [upi |-> "CONVERSION_IN_PROGRESS", adbank |-> "FUNDS_SENT", wise |-> "COMPLETED"]

Returned == last.op \in CallbackOps /\ last.ret \in {"True", "False"}

\* C37: when the collector handler or the converter handler returns for a stored
\* transaction, the status is the next waiting status (CONVERSION_IN_PROGRESS,
\* FUNDS_SENT) or FAILED, never PAYMENT_RECEIVED or CONVERSION_COMPLETE.
C37_IntermediateNeverResting ==
    (Returned /\ last.op \in {"upi", "adbank"} /\ last.pre # "NOTFOUND")
        => (/\ LastTx.status \in {SuccessTarget[last.op], "FAILED"}
            /\ LastTx.status \notin {"PAYMENT_RECEIVED", "CONVERSION_COMPLETE"})

\* The collector handler returned False after its conversion call had failed,
\* the payment being recorded.
C37_Witness ==
    /\ last.op = "upi" /\ last.ret = "False" /\ last.outcome = "fail"
    /\ TraceCount(last.trace, "update_status", "PAYMENT_RECEIVED") = 1
    /\ Tx.status = "FAILED"

\* C38: a callback handler returns True exactly when the status it leaves is its
\* success target, and False exactly when the transaction does not exist or the
\* status it leaves is FAILED.
C38_ReturnAgreesWithState ==
    Returned =>
        LET status == StatusOf(transactions, last.transaction_id) IN
        /\ last.ret = "True" <=> status = SuccessTarget[last.op]
        /\ last.ret = "False" <=> status \in {"NOTFOUND", "FAILED"}

\* The converter handler returned False for a transfer that timed out.
C38_Witness ==
    /\ last.op = "adbank" /\ last.ret = "False" /\ last.outcome = "timeout"
    /\ Tx.status = "FAILED"

=============================================================================
